---- MODULE Spec2Model ----
(***************************************************************************)
(* Real-time collaboration layer of InfoWellNess: the Socket.IO handlers   *)
(* of server/socket/socketHandlers.js (src/unnamed/part_005) over the      *)
(* Whiteboard and Chat documents (models/Whiteboard.js, src/unnamed/       *)
(* part_002).                                                              *)
(*                                                                         *)
(* A handler is an async function: it runs without interruption up to an   *)
(* await of a storage call, and is resumed when that call completes.  One  *)
(* action models one such uninterrupted piece: the receipt of an event     *)
(* (the code up to the first await), ...Found (the read takes effect and  *)
(* the code up to the save runs) and ...Saved (the write takes effect and  *)
(* the code after it runs).  Handlers in flight are the entries of tasks.  *)
(***************************************************************************)
EXTENDS Integers, Sequences, FiniteSets, Bags, TLC

\* ------------------------------------------------------------------ bounds
MaxTasks == 2
MaxElements == 2
MaxMessages == 2
MaxCollaborators == 2
MaxVersion == 3
MaxCursorEvents == 2

\* ------------------------------------------------------------- the universe
Null == "null"
Conns == {"c1", "c2", "c3"}
UserIds == {"u1", "u2", "u3"}
UnknownUserId == "u9"
ProjectIds == {"p1", "p2"}
WhiteboardIds == {"w1", "w2"}
MissingWhiteboardId == "w9"
ChatIds == {"k1", "k2"}
MissingChatId == "k9"
ElementIds == {"e1", "e2"}
GeneratedElementIds == {"g1", "g2"}
MessageIds == {"m1", "m2", "m3"}
\* Pointer positions; a payload without a cursor.
Cursors == {1, 2}
NoCursor == -1

\* The users collection: u3 exists but is deactivated, u9 does not exist.
UserStore == [u \in UserIds |-> [isActive |-> (u # "u3")]]

\* ------------------------------------------------------------------- state
VARIABLES
  connState,     \* per connection: "new", "refused", "open", "closed"
  connUser,      \* socket.user (the identity attached by the middleware)
  token,         \* the token the middleware took from the handshake
  projectId,     \* socket.projectId
  whiteboardId,  \* socket.whiteboardId
  chatId,        \* socket.chatId
  rooms,         \* the adapter: room name -> set of connections
  wbStore,       \* the whiteboards collection
  chatStore,     \* the chats collection
  tasks,         \* the bag of handlers suspended at an await
  cursorOrder,   \* history, per connection: the cursor events received and the
                 \* latest of them whose broadcast reached another member
  client,        \* one browser's SocketProvider: its connection and its state
  delivered,     \* per connection, the events the last step delivered to it
  last           \* what the last step was

vars == <<connState, connUser, token, projectId, whiteboardId, chatId,
          cursorOrder, client, rooms, wbStore, chatStore, tasks, delivered, last>>

sockVars == <<connState, connUser, token, projectId, whiteboardId, chatId,
              cursorOrder, client>>
storeVars == <<wbStore, chatStore>>

\* ------------------------------------------------------------------- rooms
UserRoom(u) == <<"user", u>>
UserProjectsRoom(u) == <<"user_projects", u>>
ProjectRoom(p) == <<"project", p>>
WhiteboardRoom(w) == <<"whiteboard", w>>
ChatRoom(k) == <<"chat", k>>

RoomNames ==
  {UserRoom(u) : u \in UserIds} \cup {UserProjectsRoom(u) : u \in UserIds}
  \cup {ProjectRoom(p) : p \in ProjectIds}
  \cup {WhiteboardRoom(w) : w \in WhiteboardIds \cup {MissingWhiteboardId}}
  \cup {ChatRoom(k) : k \in ChatIds \cup {MissingChatId}}

\* A join that takes a socket already in the room out of it.
JoinToggle(rs, c, room) ==
  [rs EXCEPT ![room] = IF c \in @ THEN @ \ {c} ELSE @ \cup {c}]
\* socket.join(room): the adapter keeps a Set of socket ids per room.
Join(rs, c, room) == [rs EXCEPT ![room] = @ \cup {c}]

\* socket.leave(room)
Leave(rs, c, room) == [rs EXCEPT ![room] = @ \ {c}]

\* The socket leaves every room when it closes, before 'disconnect' is emitted.
LeaveAll(rs, c) == [r \in RoomNames |-> rs[r] \ {c}]

RoomsOf(rs, c) == {r \in RoomNames : c \in rs[r]}

\* ------------------------------------------------------------ emitting
NoDelivery == [d \in Conns |-> <<>>]
NoBody == [none |-> TRUE]
Event(ev, src, key, body) == [ev |-> ev, src |-> src, key |-> key, body |-> body]
ErrorEvent(c) == Event("error", c, Null, NoBody)

\* A broadcast that does not leave the socket out.
SocketToAll(rs, c, room) == rs[room]
\* socket.to(room): everyone in the room except the socket itself.
SocketTo(rs, c, room) == rs[room] \ {c}
\* io.to(room): everyone in the room.
IoTo(rs, room) == rs[room]
\* socket.emit: the socket itself; a packet for a closed socket is dropped.
ToSelf(cs, c) == IF cs[c] = "open" THEN {c} ELSE {}

Emit(to, e) == [d \in Conns |-> IF d \in to THEN <<e>> ELSE <<>>]
Both(f, g) == [d \in Conns |-> f[d] \o g[d]]

Count(seq, ev) == Cardinality({i \in DOMAIN seq : seq[i].ev = ev})
Got(d, ev) == Count(delivered[d], ev)

\* ------------------------------------------------------------ handshake
NoToken == [sig |-> "none", expired |-> FALSE, id |-> Null]
Tokens ==
  [sig : {"good", "bad"}, expired : BOOLEAN, id : UserIds \cup {UnknownUserId}]
Handshakes == [auth : Tokens \cup {NoToken}, header : Tokens \cup {NoToken}]

\* socket.handshake.auth.token || socket.handshake.headers.authorization?.split(' ')[1]
TokenOf(h) == IF h.auth # NoToken THEN h.auth ELSE h.header

\* jwt.verify(token, secret) returns the payload, or throws on a bad signature
\* or an expired token.
JwtVerifies(t) == t.sig = "good" /\ ~t.expired

\* !user || !user.isActive, without the second test
AuthenticatesAnyUser(h) ==
  LET t == TokenOf(h) IN
    /\ t # NoToken
    /\ JwtVerifies(t)
    /\ t.id \in UserIds
\* The io.use middleware calls next() without an error.
Authenticates(h) ==
  LET t == TokenOf(h) IN
    /\ t # NoToken
    /\ JwtVerifies(t)
    /\ t.id \in UserIds
    /\ UserStore[t.id].isActive

\* ------------------------------------------------------------------- tasks
\* A suspended handler: the connection and event it serves, where it waits
\* ("find": the read is pending, "save": the write is pending), the document
\* id and payload of the event, the document as the handler holds it in
\* memory, the changes save() will send, and, for the disconnect handler, the
\* block it is in (arg) and the blocks that have broadcast so far (did).
NoDoc == [none |-> TRUE]
NoData == [none |-> TRUE]
NoDelta == <<>>
Task(c, ev, id, arg, data) ==
  [conn |-> c, ev |-> ev, pc |-> "find", id |-> id, arg |-> arg,
   data |-> data, doc |-> NoDoc, delta |-> NoDelta, did |-> {}]

Running == BagToSet(tasks)
HasFreeSlot == BagCardinality(tasks) < MaxTasks
Spawn(t) == tasks (+) SetToBag({t})
Without(t) == tasks (-) SetToBag({t})
TasksOf(c) == {t \in Running : t.conn = c}

\* What the last step was: the event served, the connection, the document or
\* project id, the outcome, the blocks of the disconnect handler that have
\* broadcast, and the handler's argument (an element id; the block the
\* disconnect handler was in).
StepD(op, c, id, res, did, arg) ==
  [op |-> op, conn |-> c, id |-> id, res |-> res, did |-> did, arg |-> arg]
Step(op, c, id, res) == StepD(op, c, id, res, {}, Null)

\* --------------------------------------------------------------- documents
\* A whiteboard document: its elements, its collaborators (the presence
\* entries) and Mongoose's version key __v.  A chat document: its
\* participants, its messages and __v.
Min(S) == CHOOSE i \in S : \A j \in S : i <= j
FirstIndex(S) == IF S = {} THEN 0 ELSE Min(S)

\* One change save() sends: kind "push" ($push of the last entry of the
\* array at path), "pushRead" ($push of the last entry of the readBy list of
\* the message at position idx), "setArray" ($set of the whole array at path)
\* or "setAt" ($set of the named fields of the entry at position idx of path).
Op(kind, path, idx, fields) ==
  [kind |-> kind, path |-> path, idx |-> idx, fields |-> fields]
Result(doc, delta) == [doc |-> doc, delta |-> delta, throws |-> FALSE]
Throws(doc) == [doc |-> doc, delta |-> NoDelta, throws |-> TRUE]

\* Whiteboard.js:180-189.  gen is the id the method generates when the
\* element data carries none.
addElement(doc, elementData, gen) ==
  LET element == [elementData EXCEPT !.id = IF @ # Null THEN @ ELSE gen] IN
    Result([doc EXCEPT !.elements = Append(@, element)],
           <<Op("push", "elements", 0, {})>>)

\* Object.assign(element, updates, {updatedAt}): the fields updates carries.
AssignedFields(updates) == DOMAIN updates
Assign(element, updates) ==
  [f \in DOMAIN element |->
     IF f \in AssignedFields(updates) THEN updates[f] ELSE element[f]]

\* updateElement that saves whether or not the element was found
updateElementQuietly(doc, elementId, updates) ==
  LET i == FirstIndex({j \in DOMAIN doc.elements : doc.elements[j].id = elementId}) IN
    IF i # 0
      THEN Result([doc EXCEPT !.elements[i] = Assign(@, updates)],
                  <<Op("setAt", "elements", i, AssignedFields(updates))>>)
      ELSE Result(doc, NoDelta)
\* Whiteboard.js:192-199
updateElement(doc, elementId, updates) ==
  LET i == FirstIndex({j \in DOMAIN doc.elements : doc.elements[j].id = elementId}) IN
    IF i # 0
      THEN Result([doc EXCEPT !.elements[i] = Assign(@, updates)],
                  <<Op("setAt", "elements", i, AssignedFields(updates))>>)
      ELSE Throws(doc)

\* Whiteboard.js:202-205.  Assigning an array equal to the one held marks
\* nothing modified, and save() then sends nothing.
removeElement(doc, elementId) ==
  LET Keep(e) == e.id # elementId
      kept == SelectSeq(doc.elements, Keep) IN
    IF kept = doc.elements
      THEN Result(doc, NoDelta)
      ELSE Result([doc EXCEPT !.elements = kept],
                  <<Op("setArray", "elements", 0, {})>>)

\* Whiteboard.js:208-217
updateCollaboratorCursor(doc, userId, cursor) ==
  LET i == FirstIndex({j \in DOMAIN doc.collaborators :
                         doc.collaborators[j].user = userId}) IN
    IF i # 0
      THEN Result([doc EXCEPT !.collaborators[i].cursor = cursor],
                  <<Op("setAt", "collaborators", i, {"cursor"})>>)
      ELSE Result([doc EXCEPT !.collaborators =
                     Append(@, [user |-> userId, cursor |-> cursor])],
                  <<Op("push", "collaborators", 0, {})>>)

\* Whiteboard.js:220-223
removeCollaborator(doc, userId) ==
  LET Keep(e) == e.user # userId
      kept == SelectSeq(doc.collaborators, Keep) IN
    IF kept = doc.collaborators
      THEN Result(doc, NoDelta)
      ELSE Result([doc EXCEPT !.collaborators = kept],
                  <<Op("setArray", "collaborators", 0, {})>>)

\* part_002:206-214.  gen is the generated message id.
addMessage(doc, messageData, gen) ==
  LET message == [id |-> gen, sender |-> messageData.sender,
                  content |-> messageData.content, isDeleted |-> FALSE,
                  readBy |-> <<>>] IN
    Result([doc EXCEPT !.messages = Append(@, message)],
           <<Op("push", "messages", 0, {})>>)

\* part_002:260-267.  Setting the flag to the value it has modifies nothing.
updateTypingStatus(doc, userId, isTyping) ==
  LET i == FirstIndex({j \in DOMAIN doc.participants :
                         doc.participants[j].user = userId}) IN
    IF i = 0 THEN Throws(doc)
    ELSE IF doc.participants[i].isTyping = isTyping THEN Result(doc, NoDelta)
    ELSE Result([doc EXCEPT !.participants[i].isTyping = isTyping],
                <<Op("setAt", "participants", i, {"isTyping"})>>)

\* part_002:241-257.  participant.lastRead is written on every call.
markAsRead(doc, userId, messageId) ==
  LET p == FirstIndex({j \in DOMAIN doc.participants :
                         doc.participants[j].user = userId})
      m == FirstIndex({j \in DOMAIN doc.messages : doc.messages[j].id = messageId})
      lastRead == Op("setAt", "participants", p, {}) IN
    IF p = 0 THEN Throws(doc)
    ELSE IF /\ messageId # Null
            /\ m # 0
            /\ \A j \in DOMAIN doc.messages[m].readBy :
                 doc.messages[m].readBy[j].user # userId
      THEN Result([doc EXCEPT !.messages[m].readBy = Append(@, [user |-> userId])],
                  <<Op("pushRead", "messages", m, {}), lastRead>>)
      ELSE Result(doc, <<lastRead>>)

\* ------------------------------------------------------------------ save()
\* Document.save() sends the changes made to the in-memory document.  A $push
\* increments __v; a $set of a whole array, or of a position of an array,
\* is sent with the __v the document was read at, and fails with a
\* VersionError when the stored __v differs; a $set of a whole array
\* increments __v as well.
Increments(delta) ==
  \E i \in DOMAIN delta : delta[i].kind \in {"push", "pushRead", "setArray"}
\* A save() that never tests the version key
ChecksNoVersion(delta) == FALSE
ChecksVersion(delta) ==
  \E i \in DOMAIN delta : delta[i].kind \in {"setArray", "setAt"}
VersionError(stored, doc, delta) == ChecksVersion(delta) /\ stored.v # doc.v

ApplyOp(stored, doc, op) ==
  CASE op.kind = "push" ->
         [stored EXCEPT ![op.path] = Append(@, doc[op.path][Len(doc[op.path])])]
    [] op.kind = "setArray" ->
         [stored EXCEPT ![op.path] = doc[op.path]]
    [] op.kind = "pushRead" ->
         [stored EXCEPT !.messages[op.idx].readBy =
            Append(@, doc.messages[op.idx].readBy[Len(doc.messages[op.idx].readBy)])]
    [] op.kind = "setAt" ->
         [stored EXCEPT ![op.path][op.idx] =
            [f \in DOMAIN @ |->
               IF f \in op.fields THEN doc[op.path][op.idx][f] ELSE @[f]]]

RECURSIVE ApplyOps(_, _, _)
ApplyOps(stored, doc, delta) ==
  IF delta = <<>> THEN stored
  ELSE ApplyOps(ApplyOp(stored, doc, Head(delta)), doc, Tail(delta))

Saved(stored, doc, delta) ==
  LET written == ApplyOps(stored, doc, delta) IN
    IF Increments(delta) THEN [written EXCEPT !.v = @ + 1] ELSE written

\* The arrays and the version key stay within the model's bounds.
WithinBounds(stored, delta) ==
  /\ Increments(delta) => stored.v < MaxVersion
  /\ \A i \in DOMAIN delta :
       delta[i].kind = "push" =>
         Len(stored[delta[i].path]) <
           (CASE delta[i].path = "elements" -> MaxElements
              [] delta[i].path = "messages" -> MaxMessages
              [] delta[i].path = "collaborators" -> MaxCollaborators
              [] OTHER -> 0)

\* ---------------------------------- the client's SocketProvider (part_012:16-268)
\* useState(false), useState(new Set()) three times; the provider's socket is
\* the connection conn.
InitClient ==
  [conn |-> "c1", isConnected |-> FALSE, activeProjects |-> {},
   activeWhiteboards |-> {}, activeChats |-> {}]

\* -------------------------------------------------------------------- Init
InitWhiteboard == [elements |-> <<>>, collaborators |-> <<>>, v |-> 0]
\* u1 is a participant of every chat, u2 of none.
InitChat ==
  [participants |-> <<[user |-> "u1", isTyping |-> FALSE]>>, messages |-> <<>>, v |-> 0]

Init ==
  /\ connState = [c \in Conns |-> "new"]
  /\ connUser = [c \in Conns |-> Null]
  /\ token = [c \in Conns |-> NoToken]
  /\ projectId = [c \in Conns |-> Null]
  /\ whiteboardId = [c \in Conns |-> Null]
  /\ chatId = [c \in Conns |-> Null]
  /\ cursorOrder = [c \in Conns |-> [sent |-> 0, seen |-> 0]]
  /\ client = InitClient
  /\ rooms = [r \in RoomNames |-> {}]
  /\ wbStore = [w \in WhiteboardIds |-> InitWhiteboard]
  /\ chatStore = [k \in ChatIds |-> InitChat]
  /\ tasks = EmptyBag
  /\ delivered = NoDelivery
  /\ last = Step("init", Null, Null, "ok")

\* ------------------------------------------------- connecting (part_005:8-35)
\* A client opens a connection presenting handshake h.  The middleware either
\* refuses it (no connection handler runs) or attaches the user; the connection
\* handler then joins the personal room.
Handshake(c, h) ==
  /\ connState[c] = "new"
  /\ token' = [token EXCEPT ![c] = TokenOf(h)]
  /\ IF Authenticates(h)
       THEN /\ connState' = [connState EXCEPT ![c] = "open"]
            /\ connUser' = [connUser EXCEPT ![c] = TokenOf(h).id]
            /\ rooms' = Join(rooms, c, UserRoom(TokenOf(h).id))
            /\ last' = Step("connection", c, Null, "ok")
       ELSE /\ connState' = [connState EXCEPT ![c] = "refused"]
            /\ UNCHANGED <<connUser, rooms>>
            /\ last' = Step("connection", c, Null, "refused")
  /\ delivered' = NoDelivery
  /\ UNCHANGED <<projectId, whiteboardId, chatId, cursorOrder, client, storeVars, tasks>>

\* --------------------------------------------- join-project (part_005:38-71)
JoinProject(c, p) ==
  /\ connState[c] = "open"
  /\ IF p = Null
       THEN /\ delivered' = Emit(ToSelf(connState, c), ErrorEvent(c))
            /\ last' = Step("join-project", c, p, "invalid")
            /\ UNCHANGED <<rooms, projectId>>
       ELSE LET joined == Join(Join(rooms, c, ProjectRoom(p)), c,
                               UserProjectsRoom(connUser[c])) IN
            /\ rooms' = joined
            /\ projectId' = [projectId EXCEPT ![c] = p]
            /\ delivered' = Emit(SocketTo(joined, c, ProjectRoom(p)),
                                 Event("user-joined-project", c, p, NoBody))
            /\ last' = Step("join-project", c, p,
                            IF c \in rooms[ProjectRoom(p)] THEN "again" ELSE "joined")
  /\ UNCHANGED <<connState, connUser, token, whiteboardId, chatId, cursorOrder, client, storeVars, tasks>>

\* -------------------------------------------- leave-project (part_005:74-92)
\* if (projectId) without the socket.projectId === projectId test
LeavesAnyProject(c, p) == p # Null
\* if (projectId && socket.projectId === projectId)
LeavesProject(c, p) == p # Null /\ projectId[c] = p

LeaveProject(c, p) ==
  /\ connState[c] = "open"
  /\ IF LeavesProject(c, p)
       THEN LET left == Leave(rooms, c, ProjectRoom(p)) IN
            /\ rooms' = left
            /\ projectId' = [projectId EXCEPT ![c] = Null]
            /\ delivered' = Emit(SocketTo(left, c, ProjectRoom(p)),
                                 Event("user-left-project", c, p, NoBody))
            /\ last' = Step("leave-project", c, p, "left")
       ELSE /\ delivered' = NoDelivery
            /\ last' = Step("leave-project", c, p,
                            IF p # Null /\ c \in rooms[ProjectRoom(p)]
                              THEN "ignored" ELSE "noop")
            /\ UNCHANGED <<rooms, projectId>>
  /\ UNCHANGED <<connState, connUser, token, whiteboardId, chatId, cursorOrder, client, storeVars, tasks>>

\* ---------------------------------------------------- suspended handlers
\* Whiteboard.findById / Chat.findById: the stored document, or null.
FindWhiteboard(w) == IF w \in WhiteboardIds THEN wbStore[w] ELSE NoDoc
FindChat(k) == IF k \in ChatIds THEN chatStore[k] ELSE NoDoc

AtFind(t, ev) == t.ev = ev /\ t.pc = "find"
AtSave(t, ev) == t.ev = ev /\ t.pc = "save"

\* The handler calls a document method and awaits its save().
AwaitSave(t, r) ==
  tasks' = Without(t) (+)
             SetToBag({[t EXCEPT !.pc = "save", !.doc = r.doc, !.delta = r.delta]})
\* The handler returns.
Return(t) == tasks' = Without(t)

\* The handlers whose catch block only logs (part_005:247-249, 352-354,
\* 376-378, 401-403, 471-473); the others emit 'error' to the socket.
SilentCatch == {"whiteboard-cursor-update", "chat-typing-start", "chat-typing-stop",
                "chat-message-read", "disconnect"}
CatchEmit(t) ==
  IF t.ev \in SilentCatch THEN NoDelivery
  ELSE Emit(ToSelf(connState, t.conn), ErrorEvent(t.conn))

\* The handler's catch block runs and the handler returns.
Caught(t, res) ==
  /\ Return(t)
  /\ delivered' = CatchEmit(t)
  /\ last' = StepD(t.ev, t.conn, t.id, res, t.did, t.arg)
  /\ UNCHANGED <<sockVars, rooms, storeVars>>

\* The document was not found: the handler skips its if-block and returns.
NotFound(t) ==
  /\ Return(t)
  /\ delivered' = NoDelivery
  /\ last' = Step(t.ev, t.conn, t.id, "notfound")
  /\ UNCHANGED <<sockVars, rooms, storeVars>>

\* The read completed and the handler waits for its save().
Suspended(t, r) ==
  /\ AwaitSave(t, r)
  /\ delivered' = NoDelivery
  /\ last' = Step(t.ev, t.conn, t.id, "found")
  /\ UNCHANGED <<sockVars, rooms, storeVars>>

\* save() on a whiteboard completes: the stored document after it.
WriteWhiteboard(t) ==
  wbStore' = [wbStore EXCEPT ![t.id] = Saved(@, t.doc, t.delta)]
WriteChat(t) ==
  chatStore' = [chatStore EXCEPT ![t.id] = Saved(@, t.doc, t.delta)]

\* ------------------------------------------ join-whiteboard (part_005:95-135)
\* History: the elements whiteboard w held when the event was received.
StoredAt(w) ==
  IF w \in WhiteboardIds THEN [elements |-> wbStore[w].elements] ELSE NoData
JoinWhiteboard(c, w) ==
  /\ connState[c] = "open"
  /\ IF w = Null
       THEN /\ delivered' = Emit(ToSelf(connState, c), ErrorEvent(c))
            /\ last' = Step("join-whiteboard", c, w, "invalid")
            /\ UNCHANGED <<rooms, whiteboardId, tasks>>
       ELSE /\ HasFreeSlot
            /\ rooms' = Join(rooms, c, WhiteboardRoom(w))
            /\ whiteboardId' = [whiteboardId EXCEPT ![c] = w]
            /\ tasks' = Spawn(Task(c, "join-whiteboard", w, Null, StoredAt(w)))
            /\ delivered' = NoDelivery
            /\ last' = Step("join-whiteboard", c, w,
                            IF c \in rooms[WhiteboardRoom(w)] THEN "again" ELSE "joined")
  /\ UNCHANGED <<connState, connUser, token, projectId, chatId, cursorOrder, client, storeVars>>

JoinWhiteboardFound(t) ==
  /\ AtFind(t, "join-whiteboard")
  /\ LET whiteboard == FindWhiteboard(t.id) IN
       IF whiteboard = NoDoc THEN NotFound(t)
       ELSE Suspended(t, updateCollaboratorCursor(whiteboard, connUser[t.conn], 0))

JoinWhiteboardSaved(t) ==
  /\ AtSave(t, "join-whiteboard")
  /\ WithinBounds(wbStore[t.id], t.delta)
  /\ IF VersionError(wbStore[t.id], t.doc, t.delta) THEN Caught(t, "caught")
     ELSE /\ WriteWhiteboard(t)
          /\ Return(t)
          /\ delivered' =
               Both(Emit(ToSelf(connState, t.conn),
                         Event("whiteboard-state", t.conn, t.id, t.doc)),
                    Emit(SocketTo(rooms, t.conn, WhiteboardRoom(t.id)),
                         Event("user-joined-whiteboard", t.conn, t.id, NoBody)))
          /\ last' = Step(t.ev, t.conn, t.id, "ok")
          /\ UNCHANGED <<sockVars, rooms, chatStore>>

\* ---------------------------------- whiteboard-element-add (part_005:137-164)
\* `element_${Date.now()}_${random}`: an id no element has yet, in the store
\* or in a handler's memory.
IdsOf(seq) == {seq[i].id : i \in DOMAIN seq}
ElementIdsInUse ==
  UNION ({IdsOf(wbStore[w].elements) : w \in WhiteboardIds}
         \cup {IF "elements" \in DOMAIN t.doc
                 THEN IdsOf(t.doc.elements) ELSE {} : t \in Running})
FreshElementIds == GeneratedElementIds \ ElementIdsInUse

NoElement == [none |-> TRUE]
ElementPayloads == [id : ElementIds \cup {Null}, val : {0}]

WhiteboardElementAdd(c, w, element) ==
  /\ connState[c] = "open"
  /\ IF w = Null \/ element = NoElement
       THEN /\ delivered' = Emit(ToSelf(connState, c), ErrorEvent(c))
            /\ last' = Step("whiteboard-element-add", c, w, "invalid")
            /\ UNCHANGED tasks
       ELSE /\ HasFreeSlot
            /\ tasks' = Spawn(Task(c, "whiteboard-element-add", w, Null, element))
            /\ delivered' = NoDelivery
            /\ last' = Step("whiteboard-element-add", c, w, "received")
  /\ UNCHANGED <<sockVars, rooms, storeVars>>

WhiteboardElementAddFound(t) ==
  /\ AtFind(t, "whiteboard-element-add")
  /\ LET whiteboard == FindWhiteboard(t.id)
         element == [id |-> t.data.id, createdBy |-> connUser[t.conn], val |-> t.data.val] IN
       IF whiteboard = NoDoc THEN NotFound(t)
       ELSE /\ FreshElementIds # {}
            /\ Suspended(t, addElement(whiteboard, element,
                                       CHOOSE g \in FreshElementIds : TRUE))

WhiteboardElementAddSaved(t) ==
  /\ AtSave(t, "whiteboard-element-add")
  /\ LET element == [id |-> t.data.id, createdBy |-> connUser[t.conn], val |-> t.data.val] IN
       /\ WithinBounds(wbStore[t.id], t.delta)
       /\ WriteWhiteboard(t)
       /\ Return(t)
       /\ delivered' = Emit(SocketTo(rooms, t.conn, WhiteboardRoom(t.id)),
                            Event("whiteboard-element-added", t.conn, t.id, element))
       /\ last' = StepD(t.ev, t.conn, t.id, "ok", {}, t.data.id)
       /\ UNCHANGED <<sockVars, rooms, chatStore>>

\* ------------------------------- whiteboard-element-update (part_005:166-193)
NoUpdates == [none |-> TRUE]
UpdatePayloads == {[val |-> 1]}

WhiteboardElementUpdate(c, w, elementId, updates) ==
  /\ connState[c] = "open"
  /\ IF w = Null \/ elementId = Null \/ updates = NoUpdates
       THEN /\ delivered' = Emit(ToSelf(connState, c), ErrorEvent(c))
            /\ last' = Step("whiteboard-element-update", c, w, "invalid")
            /\ UNCHANGED tasks
       ELSE /\ HasFreeSlot
            /\ tasks' = Spawn(Task(c, "whiteboard-element-update", w, elementId, updates))
            /\ delivered' = NoDelivery
            /\ last' = Step("whiteboard-element-update", c, w, "received")
  /\ UNCHANGED <<sockVars, rooms, storeVars>>

WhiteboardElementUpdateFound(t) ==
  /\ AtFind(t, "whiteboard-element-update")
  /\ LET whiteboard == FindWhiteboard(t.id) IN
       IF whiteboard = NoDoc THEN NotFound(t)
       ELSE LET r == updateElement(whiteboard, t.arg, t.data) IN
         IF r.throws THEN Caught(t, "element-not-found") ELSE Suspended(t, r)

WhiteboardElementUpdateSaved(t) ==
  /\ AtSave(t, "whiteboard-element-update")
  /\ WithinBounds(wbStore[t.id], t.delta)
  /\ IF VersionError(wbStore[t.id], t.doc, t.delta) THEN Caught(t, "caught")
     ELSE /\ WriteWhiteboard(t)
          /\ Return(t)
          /\ delivered' = Emit(SocketTo(rooms, t.conn, WhiteboardRoom(t.id)),
                               Event("whiteboard-element-updated", t.conn, t.id, t.data))
          /\ last' = StepD(t.ev, t.conn, t.id, "ok", {}, t.arg)
          /\ UNCHANGED <<sockVars, rooms, chatStore>>

\* ------------------------------- whiteboard-element-remove (part_005:195-221)
WhiteboardElementRemove(c, w, elementId) ==
  /\ connState[c] = "open"
  /\ IF w = Null \/ elementId = Null
       THEN /\ delivered' = Emit(ToSelf(connState, c), ErrorEvent(c))
            /\ last' = Step("whiteboard-element-remove", c, w, "invalid")
            /\ UNCHANGED tasks
       ELSE /\ HasFreeSlot
            /\ tasks' = Spawn(Task(c, "whiteboard-element-remove", w, elementId, NoData))
            /\ delivered' = NoDelivery
            /\ last' = Step("whiteboard-element-remove", c, w, "received")
  /\ UNCHANGED <<sockVars, rooms, storeVars>>

WhiteboardElementRemoveFound(t) ==
  /\ AtFind(t, "whiteboard-element-remove")
  /\ LET whiteboard == FindWhiteboard(t.id) IN
       IF whiteboard = NoDoc THEN NotFound(t)
       ELSE Suspended(t, removeElement(whiteboard, t.arg))

WhiteboardElementRemoveSaved(t) ==
  /\ AtSave(t, "whiteboard-element-remove")
  /\ WithinBounds(wbStore[t.id], t.delta)
  /\ IF VersionError(wbStore[t.id], t.doc, t.delta) THEN Caught(t, "caught")
     ELSE /\ WriteWhiteboard(t)
          /\ Return(t)
          /\ delivered' = Emit(SocketTo(rooms, t.conn, WhiteboardRoom(t.id)),
                               Event("whiteboard-element-removed", t.conn, t.id, NoBody))
          /\ last' = StepD(t.ev, t.conn, t.id,
                           IF t.delta = NoDelta THEN "unknown-element" ELSE "ok",
                           {}, t.arg)
          /\ UNCHANGED <<sockVars, rooms, chatStore>>

\* ------------------------------- whiteboard-cursor-update (part_005:223-250)
\* A missing field makes the handler return without a word.  The k-th cursor
\* event of a connection is numbered k.
WhiteboardCursorUpdate(c, w, cursor) ==
  /\ connState[c] = "open"
  /\ IF w = Null \/ cursor = NoCursor
       THEN /\ delivered' = NoDelivery
            /\ last' = Step("whiteboard-cursor-update", c, w, "invalid")
            /\ UNCHANGED <<tasks, cursorOrder>>
       ELSE /\ HasFreeSlot
            /\ cursorOrder[c].sent < MaxCursorEvents
            /\ cursorOrder' = [cursorOrder EXCEPT ![c].sent = @ + 1]
            /\ tasks' = Spawn(Task(c, "whiteboard-cursor-update", w, Null,
                                   [cursor |-> cursor, seq |-> cursorOrder[c].sent + 1]))
            /\ delivered' = NoDelivery
            /\ last' = Step("whiteboard-cursor-update", c, w, "received")
  /\ UNCHANGED <<connState, connUser, token, projectId, whiteboardId, chatId,
                 client, rooms, storeVars>>

WhiteboardCursorUpdateFound(t) ==
  /\ AtFind(t, "whiteboard-cursor-update")
  /\ LET whiteboard == FindWhiteboard(t.id) IN
       IF whiteboard = NoDoc THEN NotFound(t)
       ELSE Suspended(t, updateCollaboratorCursor(whiteboard, connUser[t.conn],
                                                  t.data.cursor))

Max(i, j) == IF i >= j THEN i ELSE j

WhiteboardCursorUpdateSaved(t) ==
  /\ AtSave(t, "whiteboard-cursor-update")
  /\ WithinBounds(wbStore[t.id], t.delta)
  /\ IF VersionError(wbStore[t.id], t.doc, t.delta) THEN Caught(t, "caught")
     ELSE /\ WriteWhiteboard(t)
          /\ Return(t)
          /\ delivered' = Emit(SocketTo(rooms, t.conn, WhiteboardRoom(t.id)),
                               Event("whiteboard-cursor-updated", t.conn, t.id,
                                     [cursor |-> t.data.cursor]))
          /\ cursorOrder' =
               IF SocketTo(rooms, t.conn, WhiteboardRoom(t.id)) = {} THEN cursorOrder
               ELSE [cursorOrder EXCEPT ![t.conn].seen = Max(@, t.data.seq)]
          /\ last' = Step(t.ev, t.conn, t.id, "ok")
          /\ UNCHANGED <<connState, connUser, token, projectId, whiteboardId, chatId,
                         client, rooms, chatStore>>

\* ------------------------------------------------ join-chat (part_005:253-290)
JoinChat(c, k) ==
  /\ connState[c] = "open"
  /\ IF k = Null
       THEN /\ delivered' = Emit(ToSelf(connState, c), ErrorEvent(c))
            /\ last' = Step("join-chat", c, k, "invalid")
            /\ UNCHANGED <<rooms, chatId, tasks>>
       ELSE /\ HasFreeSlot
            /\ rooms' = Join(rooms, c, ChatRoom(k))
            /\ chatId' = [chatId EXCEPT ![c] = k]
            /\ tasks' = Spawn(Task(c, "join-chat", k, Null, NoData))
            /\ delivered' = NoDelivery
            /\ last' = Step("join-chat", c, k,
                            IF c \in rooms[ChatRoom(k)] THEN "again" ELSE "joined")
  /\ UNCHANGED <<connState, connUser, token, projectId, whiteboardId, cursorOrder, client, storeVars>>

\* chat.messages.filter(m => !m.isDeleted)
NotDeleted(messages) ==
  LET Keep(m) == ~m.isDeleted IN SelectSeq(messages, Keep)

JoinChatFound(t) ==
  /\ AtFind(t, "join-chat")
  /\ LET chat == FindChat(t.id) IN
       IF chat = NoDoc THEN NotFound(t)
       ELSE /\ Return(t)
            /\ delivered' =
                 Both(Emit(ToSelf(connState, t.conn),
                           Event("chat-history", t.conn, t.id,
                                 [chat |-> chat, messages |-> NotDeleted(chat.messages)])),
                      Emit(SocketTo(rooms, t.conn, ChatRoom(t.id)),
                           Event("user-joined-chat", t.conn, t.id, NoBody)))
            /\ last' = Step(t.ev, t.conn, t.id, "ok")
            /\ UNCHANGED <<sockVars, rooms, storeVars>>

\* --------------------------------------------- chat-message (part_005:292-331)
Contents == {"hello"}

MessageIdsInUse ==
  UNION ({IdsOf(chatStore[k].messages) : k \in ChatIds}
         \cup {IF "messages" \in DOMAIN t.doc
                 THEN IdsOf(t.doc.messages) ELSE {} : t \in Running})
FreshMessageIds == MessageIds \ MessageIdsInUse

ChatMessage(c, k, content) ==
  /\ connState[c] = "open"
  /\ IF k = Null \/ content = Null
       THEN /\ delivered' = Emit(ToSelf(connState, c), ErrorEvent(c))
            /\ last' = Step("chat-message", c, k, "invalid")
            /\ UNCHANGED tasks
       ELSE /\ HasFreeSlot
            /\ tasks' = Spawn(Task(c, "chat-message", k, content, NoData))
            /\ delivered' = NoDelivery
            /\ last' = Step("chat-message", c, k, "received")
  /\ UNCHANGED <<sockVars, rooms, storeVars>>

ChatMessageFound(t) ==
  /\ AtFind(t, "chat-message")
  /\ LET chat == FindChat(t.id)
         messageData == [content |-> t.arg, sender |-> connUser[t.conn]] IN
       IF chat = NoDoc THEN NotFound(t)
       ELSE /\ FreshMessageIds # {}
            /\ Suspended(t, addMessage(chat, messageData,
                                       CHOOSE g \in FreshMessageIds : TRUE))

\* socket.to(`chat_${chatId}`) in place of io.to
ChatMessageRecipientsButSender(rs, c, k) == SocketTo(rs, c, ChatRoom(k))
\* io.to(`chat_${chatId}`)
ChatMessageRecipients(rs, c, k) == IoTo(rs, ChatRoom(k))

ChatMessageSaved(t) ==
  /\ AtSave(t, "chat-message")
  /\ LET message == t.doc.messages[Len(t.doc.messages)] IN
       /\ WithinBounds(chatStore[t.id], t.delta)
       /\ WriteChat(t)
       /\ Return(t)
       /\ delivered' = Emit(ChatMessageRecipients(rooms, t.conn, t.id),
                            Event("chat-message-received", t.conn, t.id, message))
       /\ last' = Step(t.ev, t.conn, t.id, "ok")
       /\ UNCHANGED <<sockVars, rooms, wbStore>>

\* ------------- chat-typing-start, chat-typing-stop (part_005:333-355, 357-379)
\* A missing chatId makes the handler return without a word.
TypingEvents == {"chat-typing-start", "chat-typing-stop"}
ChatTyping(c, k, ev) ==
  /\ connState[c] = "open"
  /\ IF k = Null
       THEN /\ delivered' = NoDelivery
            /\ last' = Step(ev, c, k, "invalid")
            /\ UNCHANGED tasks
       ELSE /\ HasFreeSlot
            /\ tasks' = Spawn(Task(c, ev, k, Null, NoData))
            /\ delivered' = NoDelivery
            /\ last' = Step(ev, c, k, "received")
  /\ UNCHANGED <<sockVars, rooms, storeVars>>

ChatTypingStart(c, k) == ChatTyping(c, k, "chat-typing-start")
ChatTypingStop(c, k) == ChatTyping(c, k, "chat-typing-stop")

ChatTypingFound(t) ==
  /\ t.ev \in TypingEvents
  /\ t.pc = "find"
  /\ LET chat == FindChat(t.id) IN
       IF chat = NoDoc THEN NotFound(t)
       ELSE LET r == updateTypingStatus(chat, connUser[t.conn],
                                        t.ev = "chat-typing-start") IN
              IF r.throws THEN Caught(t, "caught") ELSE Suspended(t, r)

ChatTypingSaved(t) ==
  /\ t.ev \in TypingEvents
  /\ t.pc = "save"
  /\ WithinBounds(chatStore[t.id], t.delta)
  /\ IF VersionError(chatStore[t.id], t.doc, t.delta) THEN Caught(t, "caught")
     ELSE /\ WriteChat(t)
          /\ Return(t)
          /\ delivered' = Emit(SocketTo(rooms, t.conn, ChatRoom(t.id)),
                               Event("user-typing", t.conn, t.id,
                                     [isTyping |-> (t.ev = "chat-typing-start")]))
          /\ last' = Step(t.ev, t.conn, t.id, "ok")
          /\ UNCHANGED <<sockVars, rooms, wbStore>>

\* ---------------------------------------- chat-message-read (part_005:381-404)
\* messageId is optional; a missing chatId makes the handler return without a
\* word.
ChatMessageRead(c, k, messageId) ==
  /\ connState[c] = "open"
  /\ IF k = Null
       THEN /\ delivered' = NoDelivery
            /\ last' = Step("chat-message-read", c, k, "invalid")
            /\ UNCHANGED tasks
       ELSE /\ HasFreeSlot
            /\ tasks' = Spawn(Task(c, "chat-message-read", k, messageId, NoData))
            /\ delivered' = NoDelivery
            /\ last' = Step("chat-message-read", c, k, "received")
  /\ UNCHANGED <<sockVars, rooms, storeVars>>

ChatMessageReadFound(t) ==
  /\ AtFind(t, "chat-message-read")
  /\ LET chat == FindChat(t.id) IN
       IF chat = NoDoc THEN NotFound(t)
       ELSE LET r == markAsRead(chat, connUser[t.conn], t.arg) IN
              IF r.throws THEN Caught(t, "caught") ELSE Suspended(t, r)

ChatMessageReadSaved(t) ==
  /\ AtSave(t, "chat-message-read")
  /\ WithinBounds(chatStore[t.id], t.delta)
  /\ IF VersionError(chatStore[t.id], t.doc, t.delta) THEN Caught(t, "caught")
     ELSE /\ WriteChat(t)
          /\ Return(t)
          /\ delivered' = Emit(SocketTo(rooms, t.conn, ChatRoom(t.id)),
                               Event("message-read", t.conn, t.id,
                                     [messageId |-> t.arg]))
          /\ last' = StepD(t.ev, t.conn, t.id, "ok", {}, t.arg)
          /\ UNCHANGED <<sockVars, rooms, wbStore>>

\* ------------------------------------- user-presence-update (part_005:407-423)
\* Synchronous; the room is the one the payload names, joined or not.
Statuses == {"online", "away"}
UserPresenceUpdate(c, status, p) ==
  /\ connState[c] = "open"
  /\ IF p # Null
       THEN /\ delivered' = Emit(SocketTo(rooms, c, ProjectRoom(p)),
                                 Event("user-presence-changed", c, p,
                                       [status |-> status]))
            /\ last' = Step("user-presence-update", c, p, "ok")
       ELSE /\ delivered' = NoDelivery
            /\ last' = Step("user-presence-update", c, p, "noop")
  /\ UNCHANGED <<sockVars, rooms, storeVars, tasks>>

\* --------------------------------------------------- an event with no payload
\* The client emits the event with no argument: data is undefined and the
\* handler's first statement, `const { ... } = data`, throws a TypeError.  In
\* the handlers whose body is a try block the catch block runs; leave-project
\* (part_005:74-92) and user-presence-update (part_005:407-423) have no try
\* block, and the exception leaves the listener.  What the runtime does with
\* an exception thrown out of a listener is decided outside these handlers.
TryEvents ==
  {"join-project", "join-whiteboard", "whiteboard-element-add",
   "whiteboard-element-update", "whiteboard-element-remove",
   "whiteboard-cursor-update", "join-chat", "chat-message", "chat-typing-start",
   "chat-typing-stop", "chat-message-read"}
NoTryEvents == {"leave-project", "user-presence-update"}
InboundEvents == TryEvents \cup NoTryEvents
AbsentPayload(c, ev) ==
  /\ connState[c] = "open"
  /\ delivered' = IF ev \in TryEvents
                    THEN CatchEmit(Task(c, ev, Null, Null, NoData))
                    ELSE NoDelivery
  /\ last' = Step(ev, c, Null, IF ev \in TryEvents THEN "caught" ELSE "uncaught")
  /\ UNCHANGED <<sockVars, rooms, storeVars, tasks>>

\* ------------------- DELETE /api/chat/:id/messages/:messageId (part_004:329-372)
\* The HTTP route by which user u soft-deletes a message of their own; its
\* read and its save are taken as one step.  A request that ends in a 403 or
\* a 404 changes nothing.
DeleteMessageRoute(u, k, messageId) ==
  /\ k \in ChatIds
  /\ \E i \in DOMAIN chatStore[k].messages :
       /\ chatStore[k].messages[i].id = messageId
       /\ chatStore[k].messages[i].sender = u
       /\ ~chatStore[k].messages[i].isDeleted
       /\ chatStore' = [chatStore EXCEPT ![k].messages[i].isDeleted = TRUE]
  /\ delivered' = NoDelivery
  /\ last' = Step("delete-message", Null, k, "ok")
  /\ UNCHANGED <<sockVars, rooms, wbStore, tasks>>

\* ------------------------------------------------ disconnect (part_005:426-474)
\* The project block (part_005:461-470) and the end of the handler.
DisconnectEnd(c, did, out, tasksAfter) ==
  LET p == projectId[c] IN
    /\ tasks' = tasksAfter
    /\ delivered' =
         IF p # Null
           THEN Both(out, Emit(SocketTo(rooms, c, ProjectRoom(p)),
                               Event("user-left-project", c, p, NoBody)))
           ELSE out
    /\ last' = StepD("disconnect", c, Null, "end",
                     IF p # Null THEN did \cup {"project"} ELSE did, Null)

\* The chat block (part_005:445-459) up to its findById; without an active
\* chat, the rest of the handler.
DisconnectToChat(c, t, out, others) ==
  IF chatId[c] # Null
    THEN /\ tasks' = others (+)
                       SetToBag({[t EXCEPT !.pc = "find", !.id = chatId[c], !.arg = "chat",
                                           !.doc = NoDoc, !.delta = NoDelta]})
         /\ delivered' = out
         /\ last' = StepD("disconnect", c, Null, "running", t.did, "chat")
    ELSE DisconnectEnd(c, t.did, out, others)

\* The transport closes: the socket leaves its rooms and the handler runs up
\* to its first await.
Disconnect(c) ==
  /\ connState[c] = "open"
  /\ connState' = [connState EXCEPT ![c] = "closed"]
  /\ rooms' = LeaveAll(rooms, c)
  /\ IF whiteboardId[c] # Null
       THEN /\ HasFreeSlot
            /\ tasks' = Spawn(Task(c, "disconnect", whiteboardId[c], "wb", NoData))
            /\ delivered' = NoDelivery
            /\ last' = StepD("disconnect", c, Null, "running", {}, "wb")
       ELSE IF chatId[c] # Null
         THEN /\ HasFreeSlot
              /\ DisconnectToChat(c, Task(c, "disconnect", Null, Null, NoData),
                                  NoDelivery, tasks)
         ELSE DisconnectEnd(c, {}, NoDelivery, tasks)
  /\ UNCHANGED <<connUser, token, projectId, whiteboardId, chatId, cursorOrder, client, storeVars>>

DisconnectWhiteboardFound(t) ==
  /\ AtFind(t, "disconnect")
  /\ t.arg = "wb"
  /\ LET whiteboard == FindWhiteboard(t.id) IN
       /\ IF whiteboard = NoDoc
            THEN DisconnectToChat(t.conn, t, NoDelivery, Without(t))
            ELSE /\ AwaitSave(t, removeCollaborator(whiteboard, connUser[t.conn]))
                 /\ delivered' = NoDelivery
                 /\ last' = StepD("disconnect", t.conn, Null, "running", t.did, "wb")
       /\ UNCHANGED <<sockVars, rooms, storeVars>>

DisconnectWhiteboardSaved(t) ==
  /\ AtSave(t, "disconnect")
  /\ t.arg = "wb"
  /\ WithinBounds(wbStore[t.id], t.delta)
  /\ IF VersionError(wbStore[t.id], t.doc, t.delta) THEN Caught(t, "caught")
     ELSE /\ WriteWhiteboard(t)
          /\ DisconnectToChat(t.conn, [t EXCEPT !.did = @ \cup {"wb"}],
               Emit(SocketTo(rooms, t.conn, WhiteboardRoom(t.id)),
                    Event("user-left-whiteboard", t.conn, t.id, NoBody)),
               Without(t))
          /\ UNCHANGED <<sockVars, rooms, chatStore>>

DisconnectChatFound(t) ==
  /\ AtFind(t, "disconnect")
  /\ t.arg = "chat"
  /\ LET chat == FindChat(t.id) IN
       IF chat = NoDoc
         THEN /\ DisconnectEnd(t.conn, t.did, NoDelivery, Without(t))
              /\ UNCHANGED <<sockVars, rooms, storeVars>>
         ELSE LET r == updateTypingStatus(chat, connUser[t.conn], FALSE) IN
           IF r.throws THEN Caught(t, "caught")
           ELSE /\ AwaitSave(t, r)
                /\ delivered' = NoDelivery
                /\ last' = StepD("disconnect", t.conn, Null, "running", t.did, "chat")
                /\ UNCHANGED <<sockVars, rooms, storeVars>>

DisconnectChatSaved(t) ==
  /\ AtSave(t, "disconnect")
  /\ t.arg = "chat"
  /\ WithinBounds(chatStore[t.id], t.delta)
  /\ IF VersionError(chatStore[t.id], t.doc, t.delta) THEN Caught(t, "caught")
     ELSE /\ WriteChat(t)
          /\ DisconnectEnd(t.conn, t.did \cup {"chat"},
               Emit(SocketTo(rooms, t.conn, ChatRoom(t.id)),
                    Event("user-typing", t.conn, t.id, [isTyping |-> FALSE])),
               Without(t))
          /\ UNCHANGED <<sockVars, rooms, wbStore>>

\* ------------------------------------------------------- storage failures
\* A findById or a save() rejects (the store is unreachable, a validation
\* fails): the handler's catch block runs.
StorageError(t) ==
  /\ t.pc \in {"find", "save"}
  /\ Caught(t, "storage-error")

\* ----------------------------------------------------------- specifications
\* A client that logs in as user u: a valid token in handshake.auth.
LoginAs(u) ==
  [auth |-> [sig |-> "good", expired |-> FALSE, id |-> u], header |-> NoToken]
Logins == {LoginAs("u1"), LoginAs("u2")}

\* A suspended handler resumes.
ResumeWhiteboard ==
  \E t \in Running :
    \/ JoinWhiteboardFound(t)
    \/ JoinWhiteboardSaved(t)
    \/ WhiteboardElementAddFound(t)
    \/ WhiteboardElementAddSaved(t)
    \/ WhiteboardElementUpdateFound(t)
    \/ WhiteboardElementUpdateSaved(t)
    \/ WhiteboardElementRemoveFound(t)
    \/ WhiteboardElementRemoveSaved(t)

ResumeCursor ==
  \E t \in Running :
    \/ WhiteboardCursorUpdateFound(t)
    \/ WhiteboardCursorUpdateSaved(t)

ResumeChat ==
  \E t \in Running :
    \/ JoinChatFound(t)
    \/ ChatMessageFound(t)
    \/ ChatMessageSaved(t)

ResumeTyping ==
  \E t \in Running :
    \/ ChatTypingFound(t)
    \/ ChatTypingSaved(t)

ResumeRead ==
  \E t \in Running :
    \/ ChatMessageReadFound(t)
    \/ ChatMessageReadSaved(t)

ResumeDisconnect ==
  \E t \in Running :
    \/ DisconnectWhiteboardFound(t)
    \/ DisconnectWhiteboardSaved(t)
    \/ DisconnectChatFound(t)
    \/ DisconnectChatSaved(t)

\* Every event, from every connection, with every payload of the universe.
Next ==
  \/ \E c \in Conns, h \in Handshakes : Handshake(c, h)
  \/ \E c \in Conns, p \in ProjectIds \cup {Null} : JoinProject(c, p)
  \/ \E c \in Conns, p \in ProjectIds \cup {Null} : LeaveProject(c, p)
  \/ \E c \in Conns, w \in WhiteboardIds \cup {MissingWhiteboardId, Null} :
       \/ JoinWhiteboard(c, w)
       \/ \E e \in ElementPayloads \cup {NoElement} : WhiteboardElementAdd(c, w, e)
       \/ \E e \in ElementIds \cup {Null}, u \in UpdatePayloads \cup {NoUpdates} :
            WhiteboardElementUpdate(c, w, e, u)
       \/ \E e \in ElementIds \cup {Null} : WhiteboardElementRemove(c, w, e)
  \/ \E c \in Conns, k \in ChatIds \cup {MissingChatId, Null} :
       \/ JoinChat(c, k)
       \/ \E m \in Contents \cup {Null} : ChatMessage(c, k, m)
       \/ ChatTypingStart(c, k)
       \/ ChatTypingStop(c, k)
       \/ \E m \in MessageIds \cup {Null} : ChatMessageRead(c, k, m)
  \/ \E c \in Conns, status \in Statuses \cup {Null}, p \in ProjectIds \cup {Null} :
       UserPresenceUpdate(c, status, p)
  \/ \E c \in Conns, ev \in InboundEvents : AbsentPayload(c, ev)
  \/ \E u \in UserIds, k \in ChatIds, m \in MessageIds : DeleteMessageRoute(u, k, m)
  \/ \E c \in Conns : Disconnect(c)
  \/ \E c \in Conns, w \in WhiteboardIds \cup {MissingWhiteboardId, Null},
         cursor \in Cursors \cup {NoCursor} : WhiteboardCursorUpdate(c, w, cursor)
  \/ ResumeWhiteboard
  \/ ResumeCursor
  \/ ResumeChat
  \/ ResumeTyping
  \/ ResumeRead
  \/ ResumeDisconnect
  \/ \E t \in Running : StorageError(t)

Spec == Init /\ [][Next]_vars

\* Connections, handshakes of every kind, and the project rooms.
NextProject ==
  \/ \E c \in {"c1", "c2"}, h \in Handshakes : Handshake(c, h)
  \/ \E c \in {"c1", "c2"}, p \in ProjectIds \cup {Null} : JoinProject(c, p)
  \/ \E c \in {"c1", "c2"}, p \in ProjectIds \cup {Null} : LeaveProject(c, p)
  \/ \E c \in {"c1", "c2"} : Disconnect(c)

SpecProject == Init /\ [][NextProject]_vars

\* Handshakes of every kind, followed by joins that enter rooms, broadcast
\* and write a document.
NextAuth ==
  \/ \E c \in {"c1", "c2"}, h \in Handshakes : Handshake(c, h)
  \/ \E c \in {"c1", "c2"} : JoinProject(c, "p1")
  \/ \E c \in {"c1", "c2"} : JoinWhiteboard(c, "w1")
  \/ \E t \in Running : JoinWhiteboardFound(t)
  \/ \E t \in Running : JoinWhiteboardSaved(t)

SpecAuth == Init /\ [][NextAuth]_vars

\* Two connections of one user that join, and join again, one project, one
\* whiteboard and one chat.
NextJoin ==
  \/ \E c \in {"c1", "c2"} : Handshake(c, LoginAs("u1"))
  \/ \E c \in {"c1", "c2"} : JoinProject(c, "p1")
  \/ \E c \in {"c1", "c2"} : JoinWhiteboard(c, "w1")
  \/ \E c \in {"c1", "c2"} : JoinChat(c, "k1")
  \/ \E t \in Running : JoinWhiteboardFound(t)
  \/ \E t \in Running : JoinWhiteboardSaved(t)
  \/ \E t \in Running : JoinChatFound(t)

SpecJoin == Init /\ [][NextJoin]_vars

\* Connection c1 moves between two whiteboards and two chats; c2 stays in the
\* first of each.
NextSwitch ==
  \/ \E c \in {"c1", "c2"} : Handshake(c, LoginAs("u1"))
  \/ \E w \in WhiteboardIds : JoinWhiteboard("c1", w)
  \/ JoinWhiteboard("c2", "w1")
  \/ \E k \in ChatIds : JoinChat("c1", k)
  \/ JoinChat("c2", "k1")
  \/ \E t \in Running : JoinWhiteboardFound(t)
  \/ \E t \in Running : JoinWhiteboardSaved(t)
  \/ \E t \in Running : JoinChatFound(t)

SpecSwitch == Init /\ [][NextSwitch]_vars

\* Two connections that join one project, whiteboard and chat and disconnect.
\* u2 is no participant of the chat.
NextLeave ==
  \/ \E c \in {"c1", "c2"}, h \in Logins : Handshake(c, h)
  \/ \E c \in {"c1", "c2"} : JoinProject(c, "p1")
  \/ \E c \in {"c1", "c2"} : JoinWhiteboard(c, "w1")
  \/ \E c \in {"c1", "c2"} : JoinChat(c, "k1")
  \/ \E t \in Running : JoinWhiteboardFound(t)
  \/ \E t \in Running : JoinWhiteboardSaved(t)
  \/ \E t \in Running : JoinChatFound(t)
  \/ \E c \in {"c1", "c2"} : Disconnect(c)
  \/ ResumeDisconnect

SpecLeave == Init /\ [][NextLeave]_vars

\* The same over a store that may fail.
NextDisconnect ==
  \/ NextLeave
  \/ \E t \in Running : StorageError(t)

SpecDisconnect == Init /\ [][NextDisconnect]_vars

\* Connection c1 edits the elements of a whiteboard whose room c2 is in.
NextWhiteboard ==
  \/ \E c \in {"c1", "c2"} : Handshake(c, LoginAs("u1"))
  \/ JoinWhiteboard("c2", "w1")
  \/ WhiteboardElementAdd("c1", "w1", [id |-> "e1", val |-> 0])
  \/ \E e \in ElementIds : WhiteboardElementUpdate("c1", "w1", e, [val |-> 1])
  \/ \E e \in ElementIds : WhiteboardElementRemove("c1", "w1", e)
  \/ ResumeWhiteboard

SpecWhiteboard == Init /\ [][NextWhiteboard]_vars

\* Two connections in the room of a chat, sending messages and leaving.
NextChat ==
  \/ \E c \in {"c1", "c2"}, h \in Logins : Handshake(c, h)
  \/ \E c \in {"c1", "c2"} : JoinChat(c, "k1")
  \/ \E c \in {"c1", "c2"}, m \in Contents \cup {Null} : ChatMessage(c, "k1", m)
  \/ ResumeChat
  \/ \E c \in {"c1", "c2"} : Disconnect(c)
  \/ \E t \in Running : DisconnectChatFound(t)
  \/ \E t \in Running : DisconnectChatSaved(t)

SpecChat == Init /\ [][NextChat]_vars

\* ------------------------------------------------------------------ claims
\* The suspended handler t runs in this step.
Resumes(t) == CopiesIn(t, tasks') < CopiesIn(t, tasks)
\* The disconnect handler of the last step's connection has returned.
DisconnectReturned ==
  last.op = "disconnect" /\ last.res \in {"end", "caught", "storage-error"}
Others(room, c) == rooms[room] \ {c}

\* The credential of connection c fails the middleware's tests: it is
\* missing, badly signed, expired, or names an unknown or deactivated user.
BadCredential(c) ==
  /\ connState[c] # "new"
  /\ \/ token[c] = NoToken
     \/ token[c].sig # "good"
     \/ token[c].expired
     \/ token[c].id \notin UserIds
     \/ ~UserStore[token[c].id].isActive

\* C1: a handshake with a missing, badly signed or expired credential, or one
\* of an unknown or deactivated user, is refused: the connection never opens,
\* is in no room (its personal room included), has no handler running that
\* could write a document, and is the source of no delivered event.
C1_BadHandshakeRefused ==
  \A c \in Conns :
    BadCredential(c) =>
      /\ connState[c] = "refused"
      /\ connUser[c] = Null
      /\ RoomsOf(rooms, c) = {}
      /\ TasksOf(c) = {}
      /\ projectId[c] = Null /\ whiteboardId[c] = Null /\ chatId[c] = Null
      /\ \A d \in Conns : \A i \in DOMAIN delivered[d] : delivered[d][i].src # c
      /\ last.conn = c => last.op = "connection" /\ last.res = "refused"

\* A deactivated user's well-signed token was refused while the other
\* connection is open, in a project room and has written a whiteboard.
C1_Witness ==
  \E c, d \in Conns :
    /\ connState[c] = "refused"
    /\ token[c] = [sig |-> "good", expired |-> FALSE, id |-> "u3"]
    /\ connState[d] = "open"
    /\ d \in rooms[ProjectRoom("p1")]
    /\ wbStore["w1"].collaborators # <<>>

\* C2: when a chat-message is persisted, chat-message-received is delivered
\* exactly once to every connection in the chat's room, the sender's own
\* connection included, and to no other connection.
C2_ChatMessageToWholeRoom ==
  (last.op = "chat-message" /\ last.res = "ok") =>
    \A d \in Conns :
      Got(d, "chat-message-received") =
        IF d \in rooms[ChatRoom(last.id)] THEN 1 ELSE 0

\* The sender and another connection are in the room and both received it.
C2_Witness ==
  /\ last.op = "chat-message" /\ last.res = "ok"
  /\ last.conn \in rooms[ChatRoom(last.id)]
  /\ Got(last.conn, "chat-message-received") = 1
  /\ \E d \in Conns \ {last.conn} :
       d \in rooms[ChatRoom(last.id)] /\ Got(d, "chat-message-received") = 1

\* C3: when the disconnect handler of a connection with an active whiteboard
\* W and an active chat C has returned without a storage failure, it has
\* broadcast user-left-whiteboard to the others in W's room and
\* user-typing(false) to the others in C's room; no connection receives
\* either event twice in a step, and a closed connection receives nothing.
C3_DisconnectNotifiesWhiteboardAndChat ==
  /\ (DisconnectReturned /\ last.res # "storage-error"
        /\ whiteboardId[last.conn] # Null /\ chatId[last.conn] # Null) =>
       /\ Others(WhiteboardRoom(whiteboardId[last.conn]), last.conn) # {}
            => "wb" \in last.did
       /\ Others(ChatRoom(chatId[last.conn]), last.conn) # {}
            => "chat" \in last.did
  /\ \A d \in Conns :
       /\ Got(d, "user-left-whiteboard") <= 1
       /\ Got(d, "user-typing") <= 1
       /\ connState[d] # "open" => delivered[d] = <<>>

\* C4: when a cleanup of the disconnect handler fails (a storage error, a
\* version conflict, or an identity that is no participant of the chat), the
\* cleanups after it are still carried out: the chat's typing reset after a
\* failed whiteboard cleanup, and the project notification after either.
C4_DisconnectCleanupsIndependent ==
  (DisconnectReturned /\ last.res \in {"caught", "storage-error"}) =>
    /\ last.arg = "wb" => chatId[last.conn] = Null
    /\ projectId[last.conn] = Null

\* C5: project rooms are additive (a join-project leaves the connection in
\* the project rooms it was in) and, when a connection closes, every other
\* member of every project room it was in receives user-left-project.
C5_DisconnectNotifiesEveryProject ==
  [][\A c \in Conns : \A p \in ProjectIds :
       (c \in rooms[ProjectRoom(p)]) =>
         /\ (last'.op = "join-project" /\ last'.conn = c)
              => c \in rooms'[ProjectRoom(p)]
         /\ (connState[c] = "open" /\ connState'[c] = "closed") =>
              \A d \in Others(ProjectRoom(p), c) :
                \E i \in DOMAIN delivered'[d] :
                  delivered'[d][i] = Event("user-left-project", c, p, NoBody)]_vars

\* C6: a connection is in at most one whiteboard room and at most one chat
\* room, and receives whiteboard (chat) broadcasts only for its active
\* whiteboard (chat).
WhiteboardRoomsOf(c) ==
  {w \in WhiteboardIds \cup {MissingWhiteboardId} : c \in rooms[WhiteboardRoom(w)]}
ChatRoomsOf(c) ==
  {k \in ChatIds \cup {MissingChatId} : c \in rooms[ChatRoom(k)]}
C6_OneWhiteboardOneChat ==
  \A c \in Conns :
    /\ Cardinality(WhiteboardRoomsOf(c)) <= 1
    /\ Cardinality(ChatRoomsOf(c)) <= 1
    /\ \A i \in DOMAIN delivered[c] :
         /\ delivered[c][i].ev = "user-joined-whiteboard"
              => delivered[c][i].key = whiteboardId[c]
         /\ delivered[c][i].ev = "user-joined-chat"
              => delivered[c][i].key = chatId[c]

\* C7: a join-project, join-whiteboard or join-chat by a connection that is
\* already in the room leaves every room's membership as it was.
RoomJoinedBy(op, id) ==
  CASE op = "join-project" -> ProjectRoom(id)
    [] op = "join-whiteboard" -> WhiteboardRoom(id)
    [] op = "join-chat" -> ChatRoom(id)
IsJoin(step) ==
  /\ step.op \in {"join-project", "join-whiteboard", "join-chat"}
  /\ step.res \in {"joined", "again"}
C7_JoinIdempotent ==
  [][(IsJoin(last') /\ last'.conn \in rooms[RoomJoinedBy(last'.op, last'.id)])
       => rooms' = rooms]_vars

\* A connection joined a whiteboard room it was already in, and is in it.
C7_Witness ==
  /\ last.op = "join-whiteboard" /\ last.res = "again"
  /\ rooms[WhiteboardRoom(last.id)] = {"c1", "c2"}

\* C8: a leave-project naming a project whose room the connection is not in
\* changes no room and no socket field and delivers nothing (no error, no
\* user-left-project).
C8_LeaveUnjoinedProjectNoop ==
  [][(last'.op = "leave-project" /\ last'.id \in ProjectIds
        /\ last'.conn \notin rooms[ProjectRoom(last'.id)])
       => /\ rooms' = rooms
          /\ projectId' = projectId
          /\ delivered' = NoDelivery]_vars

\* A connection in p1 with c-other in p2 sent leave-project for p2.
C8_Witness ==
  /\ last.op = "leave-project" /\ last.res = "noop" /\ last.id = "p2"
  /\ projectId[last.conn] = "p1"
  /\ Others(ProjectRoom("p2"), last.conn) # {}

\* C9: when whiteboard-element-update names an element id that the whiteboard
\* read by the handler does not hold, the handler returns at once: an error
\* goes to the sender and to nobody else, nothing is broadcast and the stored
\* whiteboards are unchanged.
C9_UpdateUnknownElement ==
  [][\A t \in Running :
       (/\ Resumes(t)
        /\ AtFind(t, "whiteboard-element-update")
        /\ t.id \in WhiteboardIds
        /\ t.arg \notin IdsOf(wbStore[t.id].elements))
       => /\ tasks' = Without(t)
          /\ wbStore' = wbStore
          /\ delivered' = Emit(ToSelf(connState, t.conn),
                               ErrorEvent(t.conn))]_vars

\* The update of an unknown element was answered with an error to the sender
\* while another connection was in the whiteboard's room and elements exist.
C9_Witness ==
  /\ last.op = "whiteboard-element-update" /\ last.res = "element-not-found"
  /\ delivered[last.conn] = <<ErrorEvent(last.conn)>>
  /\ Others(WhiteboardRoom(last.id), last.conn) # {}
  /\ wbStore[last.id].elements # <<>>

\* C10: when whiteboard-element-remove names an element id the whiteboard
\* does not hold, an error goes to the sender and no
\* whiteboard-element-removed is delivered.
C10_RemoveUnknownElement ==
  (last.op = "whiteboard-element-remove" /\ last.res = "unknown-element") =>
    /\ Got(last.conn, "error") = 1
    /\ \A d \in Conns : Got(d, "whiteboard-element-removed") = 0

\* C11: no two elements of a stored whiteboard have the same id.
C11_ElementIdsUnique ==
  \A w \in WhiteboardIds :
    \A i, j \in DOMAIN wbStore[w].elements :
      wbStore[w].elements[i].id = wbStore[w].elements[j].id => i = j

\* Connection c1 adds elements with the ids e1 and e2 and an element without
\* an id, and updates and removes the latter, sending an event while at most
\* one handler is in flight; c2 joins the whiteboard at any time.
Pipelined == BagCardinality(tasks) <= 1
NextRoundTrip ==
  \/ \E c \in {"c1", "c2"} : Handshake(c, LoginAs("u1"))
  \/ JoinWhiteboard("c2", "w1")
  \/ \E e \in ElementIds \cup {Null} :
       Pipelined /\ WhiteboardElementAdd("c1", "w1", [id |-> e, val |-> 0])
  \/ Pipelined /\ WhiteboardElementUpdate("c1", "w1", "g1", [val |-> 1])
  \/ Pipelined /\ WhiteboardElementRemove("c1", "w1", "g1")
  \/ ResumeWhiteboard

SpecRoundTrip == Init /\ [][NextRoundTrip]_vars

CountId(elements, e) ==
  Cardinality({i \in DOMAIN elements : elements[i].id = e})

\* C12: a whiteboard-element-add that completes has appended its element to
\* the stored whiteboard; updates and removes of other elements and other
\* adds, however they interleave, take no added element away; and the
\* whiteboard-state sent in answer to a join-whiteboard holds every added
\* element that was stored when the join was received.
C12_RoundTripAdds ==
  [][/\ (/\ last'.op = "whiteboard-element-add"
         /\ last'.res = "ok"
         /\ last'.arg \in ElementIds)
        => CountId(wbStore'[last'.id].elements, last'.arg)
             = CountId(wbStore[last'.id].elements, last'.arg) + 1
     /\ \A w \in WhiteboardIds : \A e \in ElementIds :
          CountId(wbStore'[w].elements, e) >= CountId(wbStore[w].elements, e)
     /\ \A t \in Running :
          (Resumes(t) /\ AtSave(t, "join-whiteboard") /\ last'.res = "ok")
          => \E i \in DOMAIN delivered'[t.conn] :
               /\ delivered'[t.conn][i].ev = "whiteboard-state"
               /\ \A e \in ElementIds :
                    CountId(delivered'[t.conn][i].body.elements, e)
                      >= CountId(t.data.elements, e)]_vars

\* c2 joined after both adds and received a whiteboard-state with e1 and e2.
C12_Witness ==
  /\ last.op = "join-whiteboard" /\ last.res = "ok" /\ last.conn = "c2"
  /\ \E i \in DOMAIN delivered["c2"] :
       /\ delivered["c2"][i].ev = "whiteboard-state"
       /\ IdsOf(delivered["c2"][i].body.elements) = ElementIds
  /\ IdsOf(wbStore["w1"].elements) = ElementIds

\* Two connections in the room of a whiteboard; c1 moves its pointer, each
\* cursor event carrying a new position.
NextCursor ==
  \/ \E c \in {"c1", "c2"} : Handshake(c, LoginAs("u1"))
  \/ \E c \in {"c1", "c2"} : JoinWhiteboard(c, "w1")
  \/ WhiteboardCursorUpdate("c1", "w1", cursorOrder["c1"].sent + 1)
  \/ \E t \in Running : JoinWhiteboardFound(t)
  \/ \E t \in Running : JoinWhiteboardSaved(t)
  \/ ResumeCursor

SpecCursor == Init /\ [][NextCursor]_vars

\* C13: the whiteboard-cursor-updated broadcasts of one connection reach the
\* other members of the room in the order in which the connection sent its
\* whiteboard-cursor-update events: a broadcast is never that of an event
\* older than one already broadcast.
C13_CursorBroadcastsInOrder ==
  [][\A t \in Running :
       (/\ Resumes(t)
        /\ AtSave(t, "whiteboard-cursor-update")
        /\ last'.res = "ok"
        /\ Others(WhiteboardRoom(t.id), t.conn) # {})
       => t.data.seq > cursorOrder[t.conn].seen]_vars

\* Connection c1 adds element e1 and, once the add is sent, updates it; c2
\* is in the whiteboard's room.
AddSent(c, w, e) ==
  \/ e \in IdsOf(wbStore[w].elements)
  \/ \E t \in TasksOf(c) :
       t.ev = "whiteboard-element-add" /\ t.id = w /\ t.data.id = e
NextAddUpdate ==
  \/ \E c \in {"c1", "c2"} : Handshake(c, LoginAs("u1"))
  \/ JoinWhiteboard("c2", "w1")
  \/ WhiteboardElementAdd("c1", "w1", [id |-> "e1", val |-> 0])
  \/ AddSent("c1", "w1", "e1")
       /\ WhiteboardElementUpdate("c1", "w1", "e1", [val |-> 1])
  \/ \E t \in Running : JoinWhiteboardFound(t)
  \/ \E t \in Running : JoinWhiteboardSaved(t)
  \/ \E t \in Running : WhiteboardElementAddFound(t)
  \/ \E t \in Running : WhiteboardElementAddSaved(t)
  \/ \E t \in Running : WhiteboardElementUpdateFound(t)
  \/ \E t \in Running : WhiteboardElementUpdateSaved(t)

SpecAddUpdate == Init /\ [][NextAddUpdate]_vars

\* C14: a whiteboard-element-update sent after the whiteboard-element-add of
\* the element it names does not fail: the sender gets no error, and when
\* the handler returns the stored element carries the update and
\* whiteboard-element-updated went to the other members of the room.
C14_UpdateAfterAddSucceeds ==
  last.op = "whiteboard-element-update" =>
    /\ last.res \in {"received", "found", "ok"}
    /\ Got(last.conn, "error") = 0
    /\ last.res = "ok" =>
         /\ \E i \in DOMAIN wbStore[last.id].elements :
              /\ wbStore[last.id].elements[i].id = last.arg
              /\ wbStore[last.id].elements[i].val = 1
         /\ \A d \in Others(WhiteboardRoom(last.id), last.conn) :
              Got(d, "whiteboard-element-updated") = 1

\* The events that write a whiteboard, or a chat, once it is joined.
WhiteboardEdits ==
  {"whiteboard-element-add", "whiteboard-element-update",
   "whiteboard-element-remove", "whiteboard-cursor-update"}
ChatEdits ==
  {"chat-message", "chat-typing-start", "chat-typing-stop", "chat-message-read"}

\* C15: a handler of a whiteboard-element-add, -update, -remove or
\* whiteboard-cursor-update changes the stored whiteboard W only when its
\* connection is in W's room, and a handler of a chat-message,
\* chat-typing-start, -stop or chat-message-read changes the stored chat C
\* only when its connection is in C's room.
C15_EditsOnlyWhenJoined ==
  [][\A t \in Running :
       Resumes(t) =>
         /\ (t.ev \in WhiteboardEdits /\ wbStore' # wbStore)
              => t.conn \in rooms[WhiteboardRoom(t.id)]
         /\ (t.ev \in ChatEdits /\ chatStore' # chatStore)
              => t.conn \in rooms[ChatRoom(t.id)]]_vars

\* C16: after a chat-message has been handled, every stored message of the
\* chat sent by the sender's identity has an entry for that identity in its
\* read-by list.
C16_SenderHasRead ==
  (last.op = "chat-message" /\ last.res = "ok") =>
    LET messages == chatStore[last.id].messages
        sender == connUser[last.conn] IN
      /\ \E i \in DOMAIN messages : messages[i].sender = sender
      /\ \A i \in DOMAIN messages :
           messages[i].sender = sender =>
             \E j \in DOMAIN messages[i].readBy : messages[i].readBy[j].user = sender

\* Two connections of u1 that join a chat and send messages; u1 deletes
\* messages of theirs over HTTP.
NextHistory ==
  \/ \E c \in {"c1", "c2"} : Handshake(c, LoginAs("u1"))
  \/ \E c \in {"c1", "c2"} : JoinChat(c, "k1")
  \/ ChatMessage("c1", "k1", "hello")
  \/ \E m \in MessageIds : DeleteMessageRoute("u1", "k1", m)
  \/ ResumeChat

SpecHistory == Init /\ [][NextHistory]_vars

\* C17: no chat-history payload holds a soft-deleted message, in its list of
\* messages or in the chat object it carries.
C17_HistoryHidesDeleted ==
  \A d \in Conns : \A i \in DOMAIN delivered[d] :
    delivered[d][i].ev = "chat-history" =>
      LET payload == delivered[d][i].body IN
        /\ \A j \in DOMAIN payload.messages : ~payload.messages[j].isDeleted
        /\ \A j \in DOMAIN payload.chat.messages : ~payload.chat.messages[j].isDeleted

\* Scenario: c2 is in a project room; c1 sends every event with a required
\* field missing, or with no payload at all.
NextMalformed ==
  \/ \E c \in {"c1", "c2"}, h \in Logins : Handshake(c, h)
  \/ \E p \in ProjectIds : JoinProject("c2", p)
  \/ JoinProject("c1", Null)
  \/ LeaveProject("c1", Null)
  \/ JoinWhiteboard("c1", Null)
  \/ \E w \in {"w1", Null} : WhiteboardElementAdd("c1", w, NoElement)
  \/ \E w \in {"w1", Null} : WhiteboardElementUpdate("c1", w, Null, NoUpdates)
  \/ \E w \in {"w1", Null} : WhiteboardElementRemove("c1", w, Null)
  \/ WhiteboardCursorUpdate("c1", "w1", NoCursor)
  \/ \E cursor \in Cursors : WhiteboardCursorUpdate("c1", Null, cursor)
  \/ JoinChat("c1", Null)
  \/ \E k \in {"k1", Null} : ChatMessage("c1", k, Null)
  \/ ChatTypingStart("c1", Null)
  \/ ChatTypingStop("c1", Null)
  \/ \E m \in MessageIds \cup {Null} : ChatMessageRead("c1", Null, m)
  \/ \E status \in Statuses : UserPresenceUpdate("c1", status, Null)
  \/ \E ev \in InboundEvents : AbsentPayload("c1", ev)
SpecMalformed == Init /\ [][NextMalformed]_vars

\* The step is an event whose payload lacks a required field.
MissingField(step) ==
  \/ step.res = "invalid"
  \/ step.op \in NoTryEvents /\ step.id = Null /\ step.res = "noop"

\* C18: an event whose payload lacks a required field sends exactly one
\* 'error' to its sender and nothing to anyone else, changes no state, and
\* leaves the connection open.
C18_MissingFieldRejected ==
  [][MissingField(last') =>
       /\ Len(delivered'[last'.conn]) = 1
       /\ delivered'[last'.conn][1].ev = "error"
       /\ \A d \in Conns \ {last'.conn} : delivered'[d] = <<>>
       /\ connState'[last'.conn] = "open"
       /\ UNCHANGED <<sockVars, rooms, storeVars, tasks>>]_vars

\* Scenario: c2 is in chat k1; c1 sends one event at a time, to whiteboard w1
\* or to chat k1, and any read or save of a handler may fail.
NextFailure ==
  \/ \E c \in {"c1", "c2"} : Handshake(c, LoginAs("u1"))
  \/ JoinChat("c2", "k1")
  \/ Pipelined /\ WhiteboardCursorUpdate("c1", "w1", 1)
  \/ Pipelined /\ ChatMessage("c1", "k1", "hello")
  \/ Pipelined /\ ChatTypingStart("c1", "k1")
  \/ Pipelined /\ ChatMessageRead("c1", "k1", "m1")
  \/ ResumeCursor
  \/ ResumeChat
  \/ ResumeTyping
  \/ ResumeRead
  \/ \E t \in Running : StorageError(t)
SpecFailure == Init /\ [][NextFailure]_vars

\* C19: when a read or a save of an event handler fails, the sender gets one
\* 'error' and no other connection gets anything.
C19_StorageFailureSurfaced ==
  (last.res = "storage-error" /\ last.op \in InboundEvents
     /\ connState[last.conn] = "open") =>
    /\ Got(last.conn, "error") = 1
    /\ \A d \in Conns \ {last.conn} : delivered[d] = <<>>

\* C20: no event, whatever its payload, makes a handler throw an exception
\* that leaves the handler.
C20_NoEscapingException == last.res # "uncaught"

\* Scenario: c1 and c2 are connections of u1, the participant of chat k1; c2
\* is in the chat room; c1 posts messages and sends read receipts, for
\* messages the chat holds and for messages it does not.
NextRead ==
  \/ \E c \in {"c1", "c2"} : Handshake(c, LoginAs("u1"))
  \/ JoinChat("c2", "k1")
  \/ Pipelined /\ ChatMessage("c1", "k1", "hello")
  \/ Pipelined /\ \E m \in {"m1", "m2", Null} : ChatMessageRead("c1", "k1", m)
  \/ ResumeChat
  \/ ResumeRead
SpecRead == Init /\ [][NextRead]_vars

\* The chat-message-read handler has finished, and the message it names is
\* not in the chat.
ReadOfUnknownMessage ==
  /\ last.op = "chat-message-read"
  /\ last.res \notin {"invalid", "received", "found"}
  /\ last.id \in ChatIds
  /\ last.arg # Null
  /\ last.arg \notin IdsOf(chatStore[last.id].messages)

\* C21: a chat-message-read naming a message the chat does not hold sends one
\* 'error' to its sender and no 'message-read' to anyone.
C21_ReadUnknownMessageRejected ==
  ReadOfUnknownMessage =>
    /\ Got(last.conn, "error") = 1
    /\ \A d \in Conns : Got(d, "message-read") = 0

\* Scenario: c1 is the only connection of u1.  It joins whiteboards, moves its
\* cursor on the whiteboard it is in, and disconnects.  A presence entry of u1
\* is written by these handlers only, each for a whiteboard c1 has joined.
NextPresence ==
  \/ Handshake("c1", LoginAs("u1"))
  \/ Handshake("c2", LoginAs("u2"))
  \/ \E w \in WhiteboardIds : JoinWhiteboard("c1", w)
  \/ JoinWhiteboard("c2", "w1")
  \/ whiteboardId["c1"] # Null /\ WhiteboardCursorUpdate("c1", whiteboardId["c1"], 1)
  \/ \E t \in Running : JoinWhiteboardFound(t)
  \/ \E t \in Running : JoinWhiteboardSaved(t)
  \/ ResumeCursor
  \/ Disconnect("c1")
  \/ \E t \in Running : DisconnectWhiteboardFound(t)
  \/ \E t \in Running : DisconnectWhiteboardSaved(t)
SpecPresence == Init /\ [][NextPresence]_vars

HasPresence(w, u) ==
  \E i \in DOMAIN wbStore[w].collaborators : wbStore[w].collaborators[i].user = u
\* Connection c has disconnected, none of its handlers is in flight, and its
\* identity has no other connection that is open or has a handler in flight.
GoneForGood(c) ==
  /\ connState[c] = "closed"
  /\ \A d \in Conns :
       connUser[d] = connUser[c] => connState[d] # "open" /\ TasksOf(d) = {}

\* C22: once a connection has disconnected and its handlers have finished,
\* and its identity has no other connection, no whiteboard holds a presence
\* entry of that identity.
C22_PresenceRemovedOnDisconnect ==
  \A c \in Conns :
    GoneForGood(c) => \A w \in WhiteboardIds : ~HasPresence(w, connUser[c])

\* No handler is in flight.
Quiet == tasks = EmptyBag
\* c2 is in the rooms of project p1, whiteboard w1 and chat k1.
Audience ==
  /\ "c2" \in rooms[ProjectRoom("p1")]
  /\ "c2" \in rooms[WhiteboardRoom("w1")]
  /\ "c2" \in rooms[ChatRoom("k1")]
\* Scenario: c2 joins project p1, whiteboard w1 and chat k1; then c1 joins
\* them and sends, while no handler is in flight, an event of every kind that
\* is broadcast with socket.to.
NextBroadcast ==
  \/ \E c \in {"c1", "c2"} : Handshake(c, LoginAs("u1"))
  \/ JoinProject("c2", "p1")
  \/ Quiet /\ JoinWhiteboard("c2", "w1")
  \/ Quiet /\ JoinChat("c2", "k1")
  \/ Audience /\ JoinProject("c1", "p1")
  \/ Audience /\ Quiet /\ JoinWhiteboard("c1", "w1")
  \/ Audience /\ Quiet /\ JoinChat("c1", "k1")
  \/ Audience /\ LeaveProject("c1", "p1")
  \/ Audience /\ UserPresenceUpdate("c1", "online", "p1")
  \/ Audience /\ Quiet /\ WhiteboardElementAdd("c1", "w1", [id |-> "e1", val |-> 0])
  \/ Audience /\ Quiet /\ WhiteboardElementUpdate("c1", "w1", "e1", [val |-> 1])
  \/ Audience /\ Quiet /\ WhiteboardElementRemove("c1", "w1", "e1")
  \/ Audience /\ Quiet /\ WhiteboardCursorUpdate("c1", "w1", 1)
  \/ Audience /\ Quiet /\ ChatTypingStart("c1", "k1")
  \/ Audience /\ Quiet /\ ChatTypingStop("c1", "k1")
  \/ Audience /\ Quiet /\ ChatMessageRead("c1", "k1", Null)
  \/ ResumeWhiteboard
  \/ ResumeCursor
  \/ \E t \in Running : JoinChatFound(t)
  \/ ResumeTyping
  \/ ResumeRead
SpecBroadcast == Init /\ [][NextBroadcast]_vars

\* The events the handlers send with socket.to(room).emit.
BroadcastEvents ==
  {"user-joined-project", "user-left-project", "user-presence-changed",
   "user-joined-whiteboard", "whiteboard-element-added",
   "whiteboard-element-updated", "whiteboard-element-removed",
   "whiteboard-cursor-updated", "user-left-whiteboard", "user-joined-chat",
   "user-typing", "message-read"}

C24_OnePresencePerIdentity ==
  \A w \in WhiteboardIds :
    \A i, j \in DOMAIN wbStore[w].collaborators :
      wbStore[w].collaborators[i].user = wbStore[w].collaborators[j].user => i = j

PresenceIn(doc, u) ==
  \E i \in DOMAIN doc.collaborators : doc.collaborators[i].user = u
\* Another open connection of the identity of c is in the room of whiteboard w.
StillJoined(c, w) ==
  \E d \in Conns \ {c} :
    /\ connState[d] = "open"
    /\ connUser[d] = connUser[c]
    /\ d \in rooms[WhiteboardRoom(w)]

\* C25: while another connection of the same identity is still in the room of
\* whiteboard W, no step of a disconnect handler removes the identity's
\* presence entry from W or sends 'user-left-whiteboard'.
C25_PresenceKeptForOtherConnection ==
  [][\A t \in Running :
       (Resumes(t) /\ t.ev = "disconnect" /\ t.arg = "wb" /\ t.id \in WhiteboardIds
          /\ StillJoined(t.conn, t.id)) =>
         /\ PresenceIn(wbStore[t.id], connUser[t.conn]) =>
              PresenceIn(wbStore'[t.id], connUser[t.conn])
         /\ \A d \in Conns : Count(delivered'[d], "user-left-whiteboard") = 0]_vars

\* C26: when an add has been saved, the element of its
\* 'whiteboard-element-added' broadcast carries the id of the element the add
\* stored, the last of the whiteboard's elements.
C26_BroadcastIdIsStoredId ==
  (last.op = "whiteboard-element-add" /\ last.res = "ok") =>
    LET stored == wbStore[last.id].elements[Len(wbStore[last.id].elements)] IN
      \A d \in Conns : \A i \in DOMAIN delivered[d] :
        delivered[d][i].ev = "whiteboard-element-added" =>
          delivered[d][i].body.id = stored.id

\* Scenario: c1 and c2 join whiteboards and chats that exist and ones that do
\* not.
NextMissing ==
  \/ \E c \in {"c1", "c2"} : Handshake(c, LoginAs("u1"))
  \/ \E c \in {"c1", "c2"}, w \in {"w1", MissingWhiteboardId} : JoinWhiteboard(c, w)
  \/ \E c \in {"c1", "c2"}, k \in {"k1", MissingChatId} : JoinChat(c, k)
  \/ \E t \in Running : JoinWhiteboardFound(t)
  \/ \E t \in Running : JoinWhiteboardSaved(t)
  \/ \E t \in Running : JoinChatFound(t)
SpecMissing == Init /\ [][NextMissing]_vars

ActiveId(op, c) == IF op = "join-whiteboard" THEN whiteboardId[c] ELSE chatId[c]

\* C27: a join-whiteboard or join-chat that found no document leaves its
\* connection outside the room of that id and without that id as its active
\* whiteboard or chat.
C27_MemberOnlyAfterSuccessfulJoin ==
  (last.op \in {"join-whiteboard", "join-chat"} /\ last.res = "notfound") =>
    /\ last.conn \notin rooms[RoomJoinedBy(last.op, last.id)]
    /\ ActiveId(last.op, last.conn) # last.id

\* ---------------------------------- the client's SocketProvider (part_012:16-268)
\* A call of joinProject, leaveProject, joinWhiteboard or joinChat is two steps
\* here: the server's receipt of the event the call emits, then the state
\* update of the call (ClientSetActive); nothing happens in between.
serverVars == <<connState, connUser, token, projectId, whiteboardId, chatId,
                cursorOrder, rooms, wbStore, chatStore, tasks>>
ClientCalls == {"join-project", "leave-project", "join-whiteboard", "join-chat"}
ClientPending ==
  /\ last.conn = client.conn
  /\ last.op \in ClientCalls
  /\ last.res \in {"joined", "again", "left", "ignored", "noop"}
\* The guard of every call: if (!socketRef.current || !isConnected) return
ClientReady == client.isConnected /\ ~ClientPending

ClientStep(op, id) ==
  /\ delivered' = NoDelivery
  /\ last' = Step(op, client.conn, id, "client")
  /\ UNCHANGED serverVars

\* part_012:49-52
ClientOnConnect ==
  /\ connState[client.conn] = "open"
  /\ ~client.isConnected
  /\ client' = [client EXCEPT !.isConnected = TRUE]
  /\ ClientStep("on-connect", Null)

\* part_012:54-62
ClientOnDisconnect ==
  /\ connState[client.conn] = "closed"
  /\ client.isConnected
  /\ client' = [client EXCEPT !.isConnected = FALSE]
  /\ ClientStep("on-disconnect", Null)

\* reconnection: true (part_012:36-47): the socket reconnects over a new
\* transport, which the server sees as a new connection.
NextConn(c) == IF c = "c1" THEN "c2" ELSE "c3"
ClientReconnect ==
  /\ connState[client.conn] = "closed"
  /\ ~client.isConnected
  /\ client.conn # "c3"
  /\ client' = [client EXCEPT !.conn = NextConn(@)]
  /\ ClientStep("reconnect", Null)

\* setActiveProjects / setActiveWhiteboards / setActiveChats of the call whose
\* event the server has just received (part_012:156-190, 193-207, 229-243).
ClientSetActive ==
  /\ ClientPending
  /\ client' =
       CASE last.op = "join-project" ->
              [client EXCEPT !.activeProjects = @ \cup {last.id}]
         [] last.op = "leave-project" ->
              [client EXCEPT !.activeProjects = @ \ {last.id}]
         [] last.op = "join-whiteboard" ->
              [client EXCEPT !.activeWhiteboards = @ \cup {last.id}]
         [] last.op = "join-chat" ->
              [client EXCEPT !.activeChats = @ \cup {last.id}]
  /\ ClientStep("set-active", last.id)

\* leaveWhiteboard (part_012:210-226): the server has no listener for
\* 'leave-whiteboard'.
ClientLeaveWhiteboard(w) ==
  /\ ClientReady
  /\ client' = [client EXCEPT !.activeWhiteboards = @ \ {w}]
  /\ ClientStep("leave-whiteboard", w)

\* leaveChat (part_012:246-262): the server has no listener for 'leave-chat'.
ClientLeaveChat(k) ==
  /\ ClientReady
  /\ client' = [client EXCEPT !.activeChats = @ \ {k}]
  /\ ClientStep("leave-chat", k)

\* Scenario: one browser connects, joins and leaves a project, a whiteboard
\* and a chat, loses its transport and reconnects.
NextClient ==
  \/ ~ClientPending /\ Handshake(client.conn, LoginAs("u1"))
  \/ ClientOnConnect
  \/ ClientReady /\ JoinProject(client.conn, "p1")
  \/ ClientReady /\ LeaveProject(client.conn, "p1")
  \/ ClientReady /\ Quiet /\ JoinWhiteboard(client.conn, "w1")
  \/ ClientReady /\ Quiet /\ JoinChat(client.conn, "k1")
  \/ ClientSetActive
  \/ ClientLeaveWhiteboard("w1")
  \/ ClientLeaveChat("k1")
  \/ ~ClientPending /\ Disconnect(client.conn)
  \/ ClientOnDisconnect
  \/ ClientReconnect
  \/ \E t \in Running : ~ClientPending /\ JoinWhiteboardFound(t)
  \/ \E t \in Running : ~ClientPending /\ JoinWhiteboardSaved(t)
  \/ \E t \in Running : ~ClientPending /\ JoinChatFound(t)
  \/ ~ClientPending /\ ResumeDisconnect
SpecClient == Init /\ [][NextClient]_vars

ServerProjects(c) == {p \in ProjectIds : c \in rooms[ProjectRoom(p)]}
ServerWhiteboards(c) ==
  {w \in WhiteboardIds \cup {MissingWhiteboardId} : c \in rooms[WhiteboardRoom(w)]}
ServerChats(c) == {k \in ChatIds \cup {MissingChatId} : c \in rooms[ChatRoom(k)]}

\* C28: whenever the client reports isConnected (its connection is open and
\* no call is half done), its activeProjects, activeWhiteboards and
\* activeChats are the project, whiteboard and chat rooms its connection is in.
C28_ClientAgreesWithServer ==
  (client.isConnected /\ connState[client.conn] = "open" /\ ~ClientPending) =>
    /\ client.activeProjects = ServerProjects(client.conn)
    /\ client.activeWhiteboards = ServerWhiteboards(client.conn)
    /\ client.activeChats = ServerChats(client.conn)

\* Scenario: c1 is the only connection of u1, a participant of both chats.  It
\* joins chats, starts typing in the chat it is in, and disconnects.
NextTyping ==
  \/ Handshake("c1", LoginAs("u1"))
  \/ Handshake("c2", LoginAs("u2"))
  \/ \E k \in ChatIds : JoinChat("c1", k)
  \/ JoinChat("c2", "k1")
  \/ chatId["c1"] # Null /\ ChatTypingStart("c1", chatId["c1"])
  \/ \E t \in Running : JoinChatFound(t)
  \/ ResumeTyping
  \/ Disconnect("c1")
  \/ \E t \in Running : DisconnectChatFound(t)
  \/ \E t \in Running : DisconnectChatSaved(t)
SpecTyping == Init /\ [][NextTyping]_vars

IsTypingIn(k, u) ==
  \E i \in DOMAIN chatStore[k].participants :
    /\ chatStore[k].participants[i].user = u
    /\ chatStore[k].participants[i].isTyping

\* C29: once a connection has disconnected and its handlers have finished,
\* and its identity has no other connection, the identity's typing flag is
\* false in every chat.
C29_TypingClearedOnDisconnect ==
  \A c \in Conns :
    GoneForGood(c) => \A k \in ChatIds : ~IsTypingIn(k, connUser[c])

\* Scenario: c2 is in project p1, whiteboard w1 and chat k1; c1 joins nothing
\* and sends events that name them.
NextOutsider ==
  \/ \E c \in {"c1", "c2"} : Handshake(c, LoginAs("u1"))
  \/ JoinProject("c2", "p1")
  \/ Quiet /\ JoinWhiteboard("c2", "w1")
  \/ Quiet /\ JoinChat("c2", "k1")
  \/ \E status \in Statuses : UserPresenceUpdate("c1", status, "p1")
  \/ Quiet /\ WhiteboardElementAdd("c1", "w1", [id |-> "e1", val |-> 0])
  \/ Quiet /\ WhiteboardCursorUpdate("c1", "w1", 1)
  \/ Quiet /\ ChatMessage("c1", "k1", "hello")
  \/ Quiet /\ ChatTypingStart("c1", "k1")
  \/ Quiet /\ ChatMessageRead("c1", "k1", Null)
  \/ ResumeWhiteboard
  \/ ResumeCursor
  \/ ResumeChat
  \/ ResumeTyping
  \/ ResumeRead
SpecOutsider == Init /\ [][NextOutsider]_vars

\* The room an event of the given name and id is sent to.
RoomOfEvent(e) ==
  CASE e.ev = "user-presence-changed" -> ProjectRoom(e.key)
    [] e.ev \in {"whiteboard-element-added", "whiteboard-element-updated",
                 "whiteboard-element-removed", "whiteboard-cursor-updated"} ->
         WhiteboardRoom(e.key)
    [] e.ev \in {"chat-message-received", "user-typing", "message-read"} ->
         ChatRoom(e.key)
ScopedEvents ==
  {"user-presence-changed", "whiteboard-element-added",
   "whiteboard-element-updated", "whiteboard-element-removed",
   "whiteboard-cursor-updated", "chat-message-received", "user-typing",
   "message-read"}

\* C30: a presence, whiteboard or chat event caused by an inbound event of a
\* connection is delivered only to a room that connection is a member of.
C30_BroadcastOnlyIntoOwnRooms ==
  last.op # "disconnect" =>
    \A d \in Conns : \A i \in DOMAIN delivered[d] :
      LET e == delivered[d][i] IN
        e.ev \in ScopedEvents => e.src \in rooms[RoomOfEvent(e)]

====
